---- MODULE Spec2Model ----
(***************************************************************************)
(* Aiko Services actor runtime: actor mailboxes and message invocation     *)
(* (actor.py), topic routing with wildcard matching and the registrar      *)
(* protocol (framework.py).                                                *)
(*                                                                         *)
(* The event loop (aiko_services/event.py), the s-expression parser        *)
(* (aiko_services/utilities/parser.py) and the Connection object are not   *)
(* among the source files; the definitions that stand for them follow the  *)
(* written specification and are marked so in the model map.               *)
(***************************************************************************)
EXTENDS Integers, Sequences, FiniteSets, TLC

VARIABLES
    \* ---- actor.py: one ActorImpl and the event loop's mailboxes ----
    mailboxes,        \* mailbox topic -> queue of Message records
    next_id,          \* identity of the next Message constructed
    posted,           \* history: topic given to _post_message -> message ids
    invoked,          \* history: Message.invoke() calls, in order
    early,            \* history: control messages posted before any "in" invoke
    share,            \* ActorImpl.share: lifecycle and running
    run_pc,           \* ActorImpl.run(): "ready", "loop", "terminated",
                      \* "returned" or "raised"
    \* ---- framework.py: topic_search as a function of its inputs ----
    ts_topic,         \* inbound topic (sequence of segments)
    ts_topics,        \* keys of private.message_handlers
    ts_wildcards,     \* private.message_handlers_wildcard_topics
    ts_matched,       \* topics_matched returned by topic_search
    ts_pc,            \* "input" before the call, "done" after
    \* ---- framework.py: the topic router ----
    message_handlers,                  \* private.message_handlers
    message_handlers_wildcard_topics,  \* private.message_handlers_wildcard_topics
    public_message,   \* public.message is set (the transport client exists)
    registration_order,  \* history: the topic of each registration still
                         \* in the table, in the order of the add calls
    rt_call,          \* the last router call: [op, topic]
    rt_transport,     \* transport calls made by the last router call
    rt_error,         \* exception that escaped the last router call, or "none"
    rt_handler_list,  \* message_handler_list of the last dispatch
    rt_invoked,       \* handlers invoked by the last dispatch, in order
    \* ---- framework.py: registrar protocol, terminate and process ----
    connection_state,               \* public.connection's state
    topic_path_registrar,           \* public.topic_path_registrar
    exit_status,                    \* private.exit_status
    protocol,                       \* public.protocol
    tags,                           \* public.tags
    terminate_registrar_not_found,  \* public.terminate_registrar_not_found
    registrar_handler,              \* private.registrar_handler is set
    event_queue,      \* payloads queued by on_message, not yet dispatched
    event_loop,       \* "idle", "running" or "terminated"
    process_pc,       \* process(): "start", "loop", "exited", "returned"
    process_exit_code,\* the status given to sys.exit, as a sequence: <<>>
                      \* while sys.exit has not been called
    received,         \* number of payloads delivered by the transport
    rg_call,          \* the last payload handled, and the state before it
    rg_published,     \* messages published by the last on_registrar_message
    rg_handler_calls, \* registrar handler calls of the last on_registrar_message
    \* ---- the transport's thread and the event loop's thread ----
    delivered,        \* number of messages the transport has delivered
    message_queue,    \* messages queued by on_message for the event loop
    in_mailbox,       \* messages posted to the actor's "in" mailbox
    in_progress,      \* handler and message invocations begun and not ended
    completed,        \* history: messages whose invoke() has returned
    \* ---- actor.py: ActorTestImpl ----
    test_count        \* ActorTestImpl.test_count: <<>> for None, else <<n>>

varsActor == <<mailboxes, next_id, posted, invoked, early, share,
              run_pc>>
varsTopic == <<ts_topic, ts_topics, ts_wildcards, ts_matched, ts_pc>>
varsRouter == <<message_handlers, message_handlers_wildcard_topics,
                public_message, registration_order, rt_call, rt_transport, rt_error,
                rt_handler_list, rt_invoked>>
varsRegistrar == <<connection_state, topic_path_registrar, exit_status,
                   protocol, tags, terminate_registrar_not_found,
                   registrar_handler, event_queue, event_loop, process_pc,
                   process_exit_code, received, rg_call, rg_published,
                   rg_handler_calls>>
varsThreads == <<delivered, message_queue, in_mailbox, in_progress, completed>>
varsTest == <<test_count>>
vars == <<varsActor, varsTopic, varsRouter, varsRegistrar, varsThreads,
          varsTest>>

\* ------------------------------------------------------------------------
\* Generic helpers
\* ------------------------------------------------------------------------
Last(s) == s[Len(s)]

Front(s) == SubSeq(s, 1, Len(s) - 1)

Range(s) == {s[i] : i \in 1..Len(s)}

SelectIds(s, mb) ==
    LET F[i \in 0..Len(s)] ==
            IF i = 0 THEN <<>>
            ELSE IF s[i].mailbox = mb THEN Append(F[i - 1], s[i].id)
                 ELSE F[i - 1]
    IN F[Len(s)]

QueueIds(q) == [i \in 1..Len(q) |-> q[i].id]

\* ------------------------------------------------------------------------
\* actor.py
\* ------------------------------------------------------------------------
MaxPosts == 4

ActorTopic_CONTROL == "control"

ActorTopic_IN == "in"

\* Attributes of the target object that a command can name.  "control_test"
\* and "test" are ActorTestImpl's methods; "share" is the dictionary set by
\* ActorImpl.__init__; "check_type" and "check_value" stand for methods of
\* an actor whose body raises; "nosuch" is not an attribute.
Commands ==
    {"control_test", "test", "share", "check_type", "check_value", "nosuch"}

\* Methods of the target object.
TargetMethods == {"control_test", "test", "check_type", "check_value"}

\* Methods called through the actor's proxy (ActorTestImpl.initialize).
ProxyMethods == {"control_test", "test"}

\* Attributes of the target object that are not callable.
TargetValues == {"share"}

\* Number of positional parameters of each method, "self" excluded.
Arity(command) == 1

\* What the body of a method does once entered.
MethodBody(command) ==
    CASE command = "check_type" -> "TypeError"
      [] command = "check_value" -> "ValueError"
      [] OTHER -> "returns"

\* Payloads received on topic_in, as parsed: a command and its parameters.
InPayloads ==
    {[command |-> c, parameters |-> <<"1">>] : c \in TargetMethods}
    \cup {[command |-> c, parameters |-> <<>>] :
              c \in {"test", "share", "nosuch"}}

ActorMailboxTopicsSwapped == <<ActorTopic_IN, ActorTopic_CONTROL>>

\* ActorImpl.__init__: mailboxes are registered in this order.
ActorMailboxTopics == <<ActorTopic_CONTROL, ActorTopic_IN>>

\* event.add_mailbox_handler: the first mailbox registered has priority.
PriorityMailbox == ActorMailboxTopics[1]

\* ActorImpl.__init__: self.share
InitShare == [lifecycle |-> "ready", running |-> FALSE]

InitActor ==
    /\ mailboxes = [t \in Range(ActorMailboxTopics) |-> <<>>]
    /\ next_id = 1
    /\ posted = [t \in Range(ActorMailboxTopics) |-> <<>>]
    /\ invoked = <<>>
    /\ early = {}
    /\ share = InitShare
    /\ run_pc = "ready"

\* Message.__init__
Message(command, arguments, target_function) ==
    [id |-> next_id, command |-> command, arguments |-> arguments,
     target_function |-> target_function]

\* event.mailbox_put: append to the named mailbox's queue.
mailbox_put(mailbox_name, message) ==
    mailboxes' = [mailboxes EXCEPT ![mailbox_name] = Append(@, message)]

post_message_wrong_mailbox(topic, command, args, target_function) ==
    /\ next_id <= MaxPosts
    /\ mailbox_put(ActorTopic_IN, Message(command, args, target_function))
    /\ next_id' = next_id + 1
    /\ posted' = [posted EXCEPT ![topic] = Append(@, next_id)]
    /\ early' = IF /\ topic = ActorTopic_CONTROL
                   /\ SelectIds(invoked, ActorTopic_IN) = <<>>
                THEN early \cup {next_id} ELSE early
    /\ UNCHANGED <<invoked, share, run_pc>>

\* ActorImpl._post_message
post_message(topic, command, args, target_function) ==
    /\ next_id <= MaxPosts
    /\ mailbox_put(topic, Message(command, args, target_function))
    /\ next_id' = next_id + 1
    /\ posted' = [posted EXCEPT ![topic] = Append(@, next_id)]
    /\ early' = IF /\ topic = ActorTopic_CONTROL
                   /\ SelectIds(invoked, ActorTopic_IN) = <<>>
                THEN early \cup {next_id} ELSE early
    /\ UNCHANGED <<invoked, share, run_pc>>

IsControlCommandNever(command) == FALSE

\* command.startswith("control_")
IsControlCommand(command) == command \in {"control_test"}

\* ActorImpl.proxy_post_message: an intercepted method call becomes a post
\* that carries the method itself as target_function.
proxy_post_message(command) ==
    /\ post_message(IF IsControlCommand(command)
                    THEN ActorTopic_CONTROL ELSE ActorTopic_IN,
                    command, <<"1">>, TRUE)
    /\ UNCHANGED <<varsTopic, varsRouter, varsRegistrar, varsThreads, varsTest>>

\* ActorImpl._topic_in_handler: a payload received on topic_in is parsed and
\* posted to the "in" mailbox, whatever its command.
topic_in_handler(payload_in) ==
    /\ post_message(ActorTopic_IN, payload_in.command,
                    payload_in.parameters, FALSE)
    /\ UNCHANGED <<varsTopic, varsRouter, varsRegistrar, varsThreads, varsTest>>

\* Message.invoke, lines 123-129: the target function is the one the message
\* carries, else the attribute of the target object named by the command,
\* else None.
TargetFunction(message) ==
    IF message.target_function \/ message.command \in TargetMethods
    THEN "method"
    ELSE IF message.command \in TargetValues THEN "value" ELSE "None"

\* The outcome of target_function(*arguments): the exception it raises, or
\* "none"; a call whose arguments do not fit the parameters raises TypeError
\* without entering the body.
Call(message) ==
    IF Len(message.arguments) # Arity(message.command)
    THEN [entered |-> FALSE, raises |-> "TypeError"]
    ELSE [entered |-> TRUE,
          raises |-> IF MethodBody(message.command) = "returns"
                     THEN "none" ELSE MethodBody(message.command)]

invoke_raise_diagnostic(message) ==
    LET target_function == TargetFunction(message) IN
    CASE target_function = "None" ->
           [called |-> FALSE, entered |-> FALSE,
            diagnostics |-> <<"Function not found">>,
            raised |-> "RuntimeError"]
      [] target_function = "value" ->
           [called |-> FALSE, entered |-> FALSE,
            diagnostics |-> <<"isn't callable">>, raised |-> "RuntimeError"]
      [] OTHER ->
           [called |-> TRUE, entered |-> Call(message).entered,
            diagnostics |-> IF Call(message).raises = "TypeError"
                            THEN <<"TypeError">> ELSE <<>>,
            raised |-> IF Call(message).raises = "TypeError"
                       THEN "RuntimeError" ELSE Call(message).raises]

\* Message.invoke: whether the target function was called, whether its body
\* was entered, the diagnostics logged and the exception that escapes
\* invoke() ("none" when it returns).
invoke(message) ==
    LET target_function == TargetFunction(message) IN
    CASE target_function = "None" ->
           [called |-> FALSE, entered |-> FALSE,
            diagnostics |-> <<"Function not found">>, raised |-> "none"]
      [] target_function = "value" ->
           [called |-> FALSE, entered |-> FALSE,
            diagnostics |-> <<"isn't callable">>, raised |-> "none"]
      [] OTHER ->
           [called |-> TRUE, entered |-> Call(message).entered,
            diagnostics |-> IF Call(message).raises = "TypeError"
                            THEN <<"TypeError">> ELSE <<>>,
            raised |-> IF Call(message).raises = "TypeError"
                       THEN "none" ELSE Call(message).raises]

\* The event loop's choice of the mailbox to service next: the priority
\* mailbox when it holds a message, otherwise any mailbox that does.
SelectableMailboxes ==
    IF mailboxes[PriorityMailbox] # <<>>
    THEN {PriorityMailbox}
    ELSE {t \in Range(ActorMailboxTopics) : mailboxes[t] # <<>>}

\* ActorImpl._mailbox_handler, called by the event loop with the mailbox's
\* oldest message.  An exception that escapes invoke() passes through
\* _mailbox_handler to the event loop, which isolates it and carries on.
mailbox_handler(topic) ==
    /\ run_pc = "loop"
    /\ topic \in SelectableMailboxes
    /\ LET message == Head(mailboxes[topic]) IN
         invoked' = Append(invoked,
             [mailbox |-> topic, id |-> message.id,
              command |-> message.command,
              target_function |-> message.target_function,
              outcome |-> invoke(message)])
    /\ mailboxes' = [mailboxes EXCEPT ![topic] = Tail(@)]
    /\ UNCHANGED <<next_id, posted, early, share, run_pc, varsTopic,
                   varsRouter, varsRegistrar, varsThreads, varsTest>>

\* ActorImpl.run, line 240: the flag is set, then aiko.process.run() is
\* entered.
run ==
    /\ run_pc = "ready"
    /\ share' = [share EXCEPT !.running = TRUE]
    /\ run_pc' = "loop"
    /\ UNCHANGED <<mailboxes, next_id, posted, invoked, early, varsTopic,
                   varsRouter, varsRegistrar, varsThreads, varsTest>>

\* ActorImpl._stop: aiko.process.terminate() asks the event loop to stop.
stop ==
    /\ run_pc = "loop"
    /\ run_pc' = "terminated"
    /\ UNCHANGED <<mailboxes, next_id, posted, invoked, early, share,
                   varsTopic, varsRouter, varsRegistrar, varsThreads, varsTest>>

\* ActorImpl.run, line 247: aiko.process.run() has returned.
run_returned ==
    /\ run_pc = "terminated"
    /\ share' = [share EXCEPT !.running = FALSE]
    /\ run_pc' = "returned"
    /\ UNCHANGED <<mailboxes, next_id, posted, invoked, early, varsTopic,
                   varsRouter, varsRegistrar, varsThreads, varsTest>>

\* ActorImpl.run, lines 243-246: an exception escapes aiko.process.run(); it
\* is logged and raised again, and line 247 is not reached.
run_raised ==
    /\ run_pc = "loop"
    /\ run_pc' = "raised"
    /\ UNCHANGED <<mailboxes, next_id, posted, invoked, early, share,
                   varsTopic, varsRouter, varsRegistrar, varsThreads, varsTest>>

NextActor ==
    \/ \E command \in ProxyMethods : proxy_post_message(command)
    \/ \E payload_in \in InPayloads : topic_in_handler(payload_in)
    \/ \E topic \in Range(ActorMailboxTopics) : mailbox_handler(topic)
    \/ run
    \/ stop
    \/ run_returned
    \/ run_raised

\* ------------------------------------------------------------------------
\* actor.py: ActorTestImpl
\* ------------------------------------------------------------------------
MaxTestPosts == 2

\* Values passed by callers other than ActorTestImpl itself.
TestValues == {7}

\* ActorTestImpl.__init__
InitTest == test_count = <<>>

\* proxy_post_message, lines 171-173: the mailbox chosen for a method name
ProxyTopic(command) ==
    IF IsControlCommand(command) THEN ActorTopic_CONTROL ELSE ActorTopic_IN

\* ActorTestImpl.initialize, lines 275-278: its four proxied calls
InitializeCalls ==
    <<[command |-> "control_test", value |-> 0],
      [command |-> "test", value |-> 1],
      [command |-> "test", value |-> 2],
      [command |-> "control_test", value |-> 3]>>

\* proxy_post_message applied to each intercepted call in turn: one Message
\* per call, carrying the method as target_function and the value as its
\* arguments, put on the mailbox chosen for the method's name.
RECURSIVE ProxyPosts(_, _)
ProxyPosts(st, calls) ==
    IF calls = <<>> THEN st
    ELSE LET call == Head(calls)
             topic == ProxyTopic(call.command)
             message == [id |-> st.next_id, command |-> call.command,
                         arguments |-> <<call.value>>,
                         target_function |-> TRUE]
         IN  ProxyPosts(
                 [mailboxes |-> [st.mailboxes EXCEPT
                                    ![topic] = Append(@, message)],
                  posted |-> [st.posted EXCEPT
                                    ![topic] = Append(@, st.next_id)],
                  next_id |-> st.next_id + 1],
                 Tail(calls))

\* The calls ActorTestImpl's methods make through the proxy, applied to the
\* mailboxes and the invocations as they are after the step's own changes.
ProxyCalls(queues, invocations, calls) ==
    LET st == ProxyPosts([mailboxes |-> queues, posted |-> posted,
                          next_id |-> next_id], calls)
    IN  /\ mailboxes' = st.mailboxes
        /\ posted' = st.posted
        /\ next_id' = st.next_id
        /\ early' = IF SelectIds(invocations, ActorTopic_IN) = <<>>
                    THEN early \cup
                           (Range(st.posted[ActorTopic_CONTROL])
                              \ Range(posted[ActorTopic_CONTROL]))
                    ELSE early

\* Posts made by callers other than ActorTestImpl itself.
ExternalPosts ==
    next_id - 1 - (IF test_count = <<>> THEN 0 ELSE test_count[1])

\* ActorTestImpl.initialize
ActorTestImpl_initialize ==
    /\ test_count = <<>>
    /\ ProxyCalls(mailboxes, invoked, InitializeCalls)
    /\ test_count' = <<4>>
    /\ UNCHANGED <<invoked, share, run_pc, varsTopic, varsRouter,
                   varsRegistrar, varsThreads>>

\* A caller holding the proxy calls control_test(value) or test(value).
ActorTestImpl_proxy_call(command, value) ==
    /\ ExternalPosts < MaxTestPosts
    /\ ProxyCalls(mailboxes, invoked,
                  <<[command |-> command, value |-> value]>>)
    /\ UNCHANGED <<invoked, share, run_pc, test_count, varsTopic,
                   varsRouter, varsRegistrar, varsThreads>>

\* ActorTestImpl._mailbox_handler: ActorImpl._mailbox_handler invokes the
\* message; after a message of the "in" mailbox, while test_count is set and
\* at most 5, control_test(test_count) is called and test_count incremented.
ActorTestImpl_mailbox_handler(topic) ==
    /\ run_pc = "loop"
    /\ topic \in SelectableMailboxes
    /\ LET message == Head(mailboxes[topic])
           rest == [mailboxes EXCEPT ![topic] = Tail(@)]
       IN  /\ invoked' = Append(invoked,
                 [mailbox |-> topic, id |-> message.id,
                  command |-> message.command,
                  arguments |-> message.arguments,
                  target_function |-> message.target_function,
                  outcome |-> invoke(message)])
           /\ IF /\ invoke(message).raised = "none"
                 /\ topic = ActorTopic_IN
                 /\ test_count # <<>>
                 /\ test_count[1] # 0
                 /\ test_count[1] <= 5
              THEN /\ ProxyCalls(rest, invoked',
                                 <<[command |-> "control_test",
                                    value |-> test_count[1]]>>)
                   /\ test_count' = <<test_count[1] + 1>>
              ELSE /\ mailboxes' = rest
                   /\ UNCHANGED <<next_id, posted, early, test_count>>
    /\ UNCHANGED <<share, run_pc, varsTopic, varsRouter, varsRegistrar,
                   varsThreads>>

\* run(), _stop() and the return from run() leave test_count alone; their
\* actions are ActorImpl's.
NextTest ==
    \/ ActorTestImpl_initialize
    \/ \E command \in ProxyMethods, value \in TestValues :
          ActorTestImpl_proxy_call(command, value)
    \/ \E topic \in Range(ActorMailboxTopics) :
          ActorTestImpl_mailbox_handler(topic)
    \/ run
    \/ stop
    \/ run_returned
    \/ run_raised

\* ------------------------------------------------------------------------
\* framework.py: topic_search
\* ------------------------------------------------------------------------
MaxTopicLen == 3

MaxWildcards == 2

\* Topic segments; str.split("/") of a topic is modelled by the sequence of
\* its segments.
Segments == {"ns", "a"}

WildcardTokens == {"+", "#"}

SeqsUpTo(S, n) == UNION {[1..k -> S] : k \in 1..n}

Topics == SeqsUpTo(Segments, MaxTopicLen)

Patterns == SeqsUpTo(Segments \cup WildcardTokens, MaxTopicLen)

\* ("#" in topic) or ("+" in topic)
IsWildcardTopic(topic) == \E i \in 1..Len(topic) : topic[i] \in WildcardTokens

WildcardPatterns == {p \in Patterns : IsWildcardTopic(p)}

\* topic_search, the test made for one wildcard topic: tokens[:-1] and
\* wildcard_tokens[:-1] are the sequences without their last element.
wildcard_match(tokens, wildcard_tokens) ==
    IF Last(wildcard_tokens) = "#"
    THEN Front(tokens) = Front(wildcard_tokens)
    ELSE /\ tokens[1] = wildcard_tokens[1]
         /\ Last(tokens) = Last(wildcard_tokens)

\* topic_search(topic, topics), reading the wildcard topics list
topic_search(topic, topics, wildcard_topics) ==
    LET F[i \in 0..Len(wildcard_topics)] ==
            IF i = 0
            THEN IF topic \in topics THEN <<topic>> ELSE <<>>
            ELSE IF wildcard_match(topic, wildcard_topics[i])
                 THEN Append(F[i - 1], wildcard_topics[i])
                 ELSE F[i - 1]
    IN F[Len(wildcard_topics)]

InitTopic ==
    /\ ts_topic \in Topics
    /\ ts_wildcards \in
          {<<>>} \cup UNION {[1..k -> WildcardPatterns] : k \in 1..MaxWildcards}
    /\ \E exact \in SUBSET {ts_topic} : ts_topics = exact \cup Range(ts_wildcards)
    /\ ts_matched = <<>>
    /\ ts_pc = "input"

TopicSearchCall ==
    /\ ts_pc = "input"
    /\ ts_matched' = topic_search(ts_topic, ts_topics, ts_wildcards)
    /\ ts_pc' = "done"
    /\ UNCHANGED <<ts_topic, ts_topics, ts_wildcards, varsActor, varsRouter,
                   varsRegistrar, varsThreads, varsTest>>

NextTopic == TopicSearchCall

\* ------------------------------------------------------------------------
\* framework.py: the topic router
\* ------------------------------------------------------------------------
MaxRegistered == 2

MaxWildcardEntries == 2

REGISTRAR_TOPIC == <<"ns", "service", "registrar">>

\* Message handlers, named after what each does when it is called: return
\* False, return True, raise an exception. on_registrar_message returns None.
Handlers == {"hFalse", "hTrue", "hRaise"}

Behaviour(message_handler) ==
    CASE message_handler = "hTrue" -> "True"
      [] message_handler = "hRaise" -> "raise"
      [] OTHER -> "False"

\* Topics and patterns that handlers are registered for, and inbound topics.
RegisteredTopics == {<<"ns", "a">>, <<"ns", "+">>, <<"ns", "#">>}

InboundTopics == {<<"ns", "a">>, <<"ns", "a", "a">>, REGISTRAR_TOPIC}

NoCall == [op |-> "none", topic |-> <<>>]

InitRouter ==
    /\ message_handlers = <<>>
    /\ message_handlers_wildcard_topics = <<>>
    /\ public_message = FALSE
    /\ registration_order = <<>>
    /\ rt_call = NoCall
    /\ rt_transport = <<>>
    /\ rt_error = "none"
    /\ rt_handler_list = <<>>
    /\ rt_invoked = <<>>

Count(s, x) == Cardinality({i \in 1..Len(s) : s[i] = x})

\* list.remove(x): the first occurrence of x is removed.
ListRemove(s, x) ==
    LET i == CHOOSE k \in 1..Len(s) :
                 s[k] = x /\ \A j \in 1..(k - 1) : s[j] # x
    IN SubSeq(s, 1, i - 1) \o SubSeq(s, i + 1, Len(s))

\* del d[key]
DictDel(d, key) == [k \in DOMAIN d \ {key} |-> d[k]]

\* Number of handlers registered by add_message_handler calls.
Registered ==
    LET topics == DOMAIN message_handlers \ {REGISTRAR_TOPIC}
        Sum[S \in SUBSET topics] ==
            IF S = {} THEN 0
            ELSE LET t == CHOOSE x \in S : TRUE
                 IN Len(message_handlers[t]) + Sum[S \ {t}]
    IN Sum[topics]

\* The table and the wildcard list after add_message_handler's registration.
AddedHandlers(message_handler, topic) ==
    IF topic \in DOMAIN message_handlers
    THEN [message_handlers EXCEPT ![topic] = Append(@, message_handler)]
    ELSE (topic :> <<message_handler>>) @@ message_handlers

AddedWildcardTopics(topic) ==
    IF topic \notin DOMAIN message_handlers /\ IsWildcardTopic(topic)
    THEN Append(message_handlers_wildcard_topics, topic)
    ELSE message_handlers_wildcard_topics

\* add_message_handler
add_message_handler(message_handler, topic) ==
    /\ Registered < MaxRegistered
    /\ Len(AddedWildcardTopics(topic)) <= MaxWildcardEntries
    /\ message_handlers' = AddedHandlers(message_handler, topic)
    /\ message_handlers_wildcard_topics' = AddedWildcardTopics(topic)
    /\ registration_order' = Append(registration_order, topic)
    /\ rt_call' = [op |-> "add", topic |-> topic]
    /\ rt_transport' = IF public_message
                       THEN <<<<"subscribe", topic>>>> ELSE <<>>
    /\ rt_error' = "none"
    /\ rt_handler_list' = <<>>
    /\ rt_invoked' = <<>>
    /\ UNCHANGED <<public_message, varsActor, varsTopic, varsRegistrar, varsThreads, varsTest>>

\* initialize: on_registrar_message is registered while public.message is
\* still None (no subscribe call), then the transport client is created.
initialize ==
    /\ ~public_message
    /\ message_handlers' = AddedHandlers("on_registrar_message", REGISTRAR_TOPIC)
    /\ message_handlers_wildcard_topics' = AddedWildcardTopics(REGISTRAR_TOPIC)
    /\ public_message' = TRUE
    /\ registration_order' = Append(registration_order, REGISTRAR_TOPIC)
    /\ rt_call' = [op |-> "initialize", topic |-> REGISTRAR_TOPIC]
    /\ rt_transport' = <<>>
    /\ rt_error' = "none"
    /\ rt_handler_list' = <<>>
    /\ rt_invoked' = <<>>
    /\ UNCHANGED <<varsActor, varsTopic, varsRegistrar, varsThreads, varsTest>>

\* Position in s of the k-th occurrence of x.
Occurrence(s, x, k) ==
    CHOOSE i \in 1..Len(s) :
        s[i] = x /\ Cardinality({j \in 1..i : s[j] = x}) = k

\* Position in s of the first occurrence of x.
Index(s, x) ==
    CHOOSE k \in 1..Len(s) : s[k] = x /\ \A j \in 1..(k - 1) : s[j] # x

\* The registration history without the registration that list.remove drops.
Unregistered(message_handler, topic) ==
    LET i == Occurrence(registration_order, topic,
                        Index(message_handlers[topic], message_handler))
    IN SubSeq(registration_order, 1, i - 1)
           \o SubSeq(registration_order, i + 1, Len(registration_order))

remove_message_handler_always_unsubscribes(message_handler, topic) ==
    /\ rt_call' = [op |-> "remove", topic |-> topic]
    /\ IF topic \in DOMAIN message_handlers
       THEN LET handlers ==
                    IF message_handler \in Range(message_handlers[topic])
                    THEN ListRemove(message_handlers[topic], message_handler)
                    ELSE message_handlers[topic]
            IN /\ message_handlers' =
                      IF Len(handlers) = 0
                      THEN DictDel(message_handlers, topic)
                      ELSE [message_handlers EXCEPT ![topic] = handlers]
               /\ registration_order' =
                      IF message_handler \in Range(message_handlers[topic])
                      THEN Unregistered(message_handler, topic)
                      ELSE registration_order
               /\ rt_transport' =
                      IF public_message
                      THEN <<<<"unsubscribe", topic>>>> ELSE <<>>
               /\ rt_error' =
                      IF topic \in Range(message_handlers_wildcard_topics)
                      THEN "TypeError" ELSE "none"
       ELSE /\ message_handlers' = message_handlers
            /\ registration_order' = registration_order
            /\ rt_transport' = <<>>
            /\ rt_error' = "none"
    /\ rt_handler_list' = <<>>
    /\ rt_invoked' = <<>>
    /\ UNCHANGED <<message_handlers_wildcard_topics, public_message,
                   varsActor, varsTopic, varsRegistrar, varsThreads, varsTest>>

\* remove_message_handler. "del private.message_handlers_wildcard_topics[topic]"
\* indexes a list with a string: it raises TypeError and leaves the list as
\* it was, after the handler table has been changed.
remove_message_handler(message_handler, topic) ==
    /\ rt_call' = [op |-> "remove", topic |-> topic]
    /\ IF topic \in DOMAIN message_handlers
       THEN LET handlers ==
                    IF message_handler \in Range(message_handlers[topic])
                    THEN ListRemove(message_handlers[topic], message_handler)
                    ELSE message_handlers[topic]
            IN /\ message_handlers' =
                      IF Len(handlers) = 0
                      THEN DictDel(message_handlers, topic)
                      ELSE [message_handlers EXCEPT ![topic] = handlers]
               /\ registration_order' =
                      IF message_handler \in Range(message_handlers[topic])
                      THEN Unregistered(message_handler, topic)
                      ELSE registration_order
               /\ rt_transport' =
                      IF Len(handlers) = 0 /\ public_message
                      THEN <<<<"unsubscribe", topic>>>> ELSE <<>>
               /\ rt_error' =
                      IF topic \in Range(message_handlers_wildcard_topics)
                      THEN "TypeError" ELSE "none"
       ELSE /\ message_handlers' = message_handlers
            /\ registration_order' = registration_order
            /\ rt_transport' = <<>>
            /\ rt_error' = "none"
    /\ rt_handler_list' = <<>>
    /\ rt_invoked' = <<>>
    /\ UNCHANGED <<message_handlers_wildcard_topics, public_message,
                   varsActor, varsTopic, varsRegistrar, varsThreads, varsTest>>

\* message_queue_handler: message_handler_list, the handlers of the matched
\* topics in the order topic_search returned them.
HandlerList(topics_matched) ==
    LET F[i \in 0..Len(topics_matched)] ==
            IF i = 0 THEN <<>>
            ELSE F[i - 1] \o message_handlers[topics_matched[i]]
    IN F[Len(topics_matched)]

\* Position of the first handler of the list that returns True, or the
\* list's length when none does.
StopAt(handler_list) ==
    IF \E i \in 1..Len(handler_list) : Behaviour(handler_list[i]) = "True"
    THEN CHOOSE i \in 1..Len(handler_list) :
             /\ Behaviour(handler_list[i]) = "True"
             /\ \A j \in 1..(i - 1) : Behaviour(handler_list[j]) # "True"
    ELSE Len(handler_list)

\* Position of the first handler of the list that returns True or raises.
StopAtTrueOrRaise(handler_list) ==
    IF \E i \in 1..Len(handler_list) : Behaviour(handler_list[i]) # "False"
    THEN CHOOSE i \in 1..Len(handler_list) :
             /\ Behaviour(handler_list[i]) # "False"
             /\ \A j \in 1..(i - 1) : Behaviour(handler_list[j]) = "False"
    ELSE Len(handler_list)

DispatchedNoReturn(handler_list) ==
    [invoked |-> handler_list, error |-> "none"]

DispatchedNoTry(handler_list) ==
    LET n == StopAtTrueOrRaise(handler_list) IN
    [invoked |-> SubSeq(handler_list, 1, n),
     error |-> IF n > 0 /\ Behaviour(handler_list[n]) = "raise"
               THEN "Exception" ELSE "none"]

\* message_queue_handler, the loop over message_handler_list: each handler
\* is called inside try/except Exception, and the first that returns True
\* ends the dispatch.
Dispatched(handler_list) ==
    [invoked |-> SubSeq(handler_list, 1, StopAt(handler_list)),
     error |-> "none"]

\* message_queue_handler applied to a message on the topic, in the current
\* state: message_handler_list, the handlers invoked and the exception that
\* escapes.  A matched topic that is no key of the handler table raises
\* KeyError before any handler is called.
MessageDispatch(topic) ==
    LET topics_matched ==
            topic_search(topic, DOMAIN message_handlers,
                         message_handlers_wildcard_topics)
        message_handler_list == HandlerList(topics_matched)
        dispatched == Dispatched(message_handler_list)
    IN IF \E i \in 1..Len(topics_matched) :
              topics_matched[i] \notin DOMAIN message_handlers
       THEN [handler_list |-> <<>>, invoked |-> <<>>, error |-> "KeyError"]
       ELSE [handler_list |-> message_handler_list,
             invoked |-> dispatched.invoked,
             error |-> dispatched.error]

\* message_queue_handler
message_queue_handler(topic) ==
    /\ public_message
    /\ rt_call' = [op |-> "dispatch", topic |-> topic]
    /\ rt_transport' = <<>>
    /\ LET dispatch == MessageDispatch(topic) IN
         /\ rt_handler_list' = dispatch.handler_list
         /\ rt_invoked' = dispatch.invoked
         /\ rt_error' = dispatch.error
    /\ UNCHANGED <<message_handlers, message_handlers_wildcard_topics,
                   public_message, registration_order, varsActor, varsTopic,
                   varsRegistrar, varsThreads, varsTest>>

NextRouter ==
    \/ initialize
    \/ \E h \in Handlers, t \in RegisteredTopics : add_message_handler(h, t)
    \/ \E h \in Handlers, t \in RegisteredTopics : remove_message_handler(h, t)
    \/ \E t \in InboundTopics : message_queue_handler(t)

\* ------------------------------------------------------------------------
\* framework.py: registrar protocol, terminate and process
\* ------------------------------------------------------------------------
MaxReceived == 3

MaxQueue == 1

MaxTags == 2

\* public.topic_path: namespace/hostname/pid
topic_path == "ns/host/pid"

\* public.transport
transport == "mqtt"

\* get_username()
owner == "owner"

Protocols == {"None", "proto"}

TagLists == {<<"a=1", "b=2">>, <<"c=3">>}

RegistrarPaths == {"reg/one", "reg/two"}

\* A payload is the sequence of its tokens, parentheses included.
StartedPayload(path) == <<"(", "primary", "started", path, "12345", ")">>

StoppedPayload == <<"(", "primary", "stopped", ")">>

MalformedPayloads ==
    { <<"(", "primary", "started", "reg/one", ")">>,
      <<"(", "primary", "stopped", "now", ")">>,
      <<"(", "primary", ")">>,
      <<"(", "secondary", "stopped", ")">> }

RegistrarPayloads ==
    {StartedPayload(path) : path \in RegistrarPaths}
        \cup {StoppedPayload} \cup MalformedPayloads

\* The items of the list whose opening parenthesis precedes position i, and
\* the position after its closing parenthesis.  A parenthesised group is one
\* item, itself a list.
RECURSIVE ParseList(_, _)
ParseList(tokens, i) ==
    IF i > Len(tokens) THEN [items |-> <<>>, next |-> i]
    ELSE IF tokens[i] = ")" THEN [items |-> <<>>, next |-> i + 1]
    ELSE IF tokens[i] = "("
         THEN LET sublist == ParseList(tokens, i + 1)
                  rest == ParseList(tokens, sublist.next)
              IN [items |-> <<sublist.items>> \o rest.items,
                  next |-> rest.next]
         ELSE LET rest == ParseList(tokens, i + 1)
              IN [items |-> <<tokens[i]>> \o rest.items, next |-> rest.next]

\* parse(payload): the command and the parameters of "(command p1 p2 ...)",
\* where a parameter is a word or a parenthesised list of parameters.
parse(payload) ==
    IF Len(payload) >= 3 /\ Head(payload) = "(" /\ Last(payload) = ")"
    THEN [command |-> ParseList(payload, 2).items[1],
          parameters |-> Tail(ParseList(payload, 2).items)]
    ELSE [command |-> "None", parameters |-> <<>>]

\* f"{topic_path}/in"
TopicJoin(path, suffix) == <<path, suffix>>

AddPayloadTagsUnwrapped ==
    <<"(", "add", topic_path, protocol, transport, owner>> \o tags \o <<")">>

\* f"(add {topic_path} {protocol} {transport} {owner} ({tags}))", the tags
\* joined by single spaces.
AddPayload ==
    <<"(", "add", topic_path, protocol, transport, owner, "(">>
        \o tags \o <<")", ")">>

InitRegistrar ==
    /\ connection_state = "DISCONNECTED"
    /\ topic_path_registrar = "None"
    /\ exit_status = 0
    /\ protocol = "None"
    /\ tags = <<>>
    /\ terminate_registrar_not_found = FALSE
    /\ registrar_handler = FALSE
    /\ event_queue = <<>>
    /\ event_loop = "idle"
    /\ process_pc = "start"
    /\ process_exit_code = <<>>
    /\ received = 0
    /\ rg_call = [payload |-> <<>>, state_before |-> "None"]
    /\ rg_published = <<>>
    /\ rg_handler_calls = <<>>

\* set_protocol
set_protocol(value) ==
    /\ process_pc = "start"
    /\ protocol' = value
    /\ UNCHANGED <<connection_state, topic_path_registrar, exit_status, tags,
                   terminate_registrar_not_found, registrar_handler,
                   event_queue, event_loop, process_pc, process_exit_code,
                   received, rg_call, rg_published, rg_handler_calls,
                   varsActor, varsTopic, varsRouter, varsThreads, varsTest>>

\* add_tags
add_tags(new_tags) ==
    /\ process_pc = "start"
    /\ Len(tags) + Len(new_tags) <= MaxTags
    /\ tags' = tags \o new_tags
    /\ UNCHANGED <<connection_state, topic_path_registrar, exit_status,
                   protocol, terminate_registrar_not_found, registrar_handler,
                   event_queue, event_loop, process_pc, process_exit_code,
                   received, rg_call, rg_published, rg_handler_calls,
                   varsActor, varsTopic, varsRouter, varsThreads, varsTest>>

\* set_terminate_registrar_not_found
set_terminate_registrar_not_found(value) ==
    /\ process_pc = "start"
    /\ terminate_registrar_not_found' = value
    /\ UNCHANGED <<connection_state, topic_path_registrar, exit_status,
                   protocol, tags, registrar_handler,
                   event_queue, event_loop, process_pc, process_exit_code,
                   received, rg_call, rg_published, rg_handler_calls,
                   varsActor, varsTopic, varsRouter, varsThreads, varsTest>>

\* set_registrar_handler
set_registrar_handler(value) ==
    /\ process_pc = "start"
    /\ registrar_handler' = value
    /\ UNCHANGED <<connection_state, topic_path_registrar, exit_status,
                   protocol, tags, terminate_registrar_not_found,
                   event_queue, event_loop, process_pc, process_exit_code,
                   received, rg_call, rg_published, rg_handler_calls,
                   varsActor, varsTopic, varsRouter, varsThreads, varsTest>>

\* process(), up to the call of event.loop()
process_start ==
    /\ process_pc = "start"
    /\ process_pc' = "loop"
    /\ event_loop' = "running"
    /\ UNCHANGED <<connection_state, topic_path_registrar, exit_status,
                   protocol, tags, terminate_registrar_not_found,
                   registrar_handler, event_queue, process_exit_code,
                   received, rg_call, rg_published, rg_handler_calls,
                   varsActor, varsTopic, varsRouter, varsThreads, varsTest>>

\* The transport connects or loses its connection (Connection.update_state
\* called by the transport client).
transport_state(state) ==
    /\ process_pc = "loop"
    /\ state \in {"DISCONNECTED", "TRANSPORT"}
    /\ connection_state' = state
    /\ UNCHANGED <<topic_path_registrar, exit_status,
                   protocol, tags, terminate_registrar_not_found,
                   registrar_handler, event_queue, event_loop, process_pc,
                   process_exit_code, received, rg_call, rg_published,
                   rg_handler_calls, varsActor, varsTopic, varsRouter, varsThreads, varsTest>>

\* on_message: the transport's delivery callback queues the message.
on_message(payload) ==
    /\ process_pc = "loop"
    /\ received < MaxReceived
    /\ Len(event_queue) < MaxQueue
    /\ event_queue' = Append(event_queue, payload)
    /\ received' = received + 1
    /\ UNCHANGED <<connection_state, topic_path_registrar, exit_status,
                   protocol, tags, terminate_registrar_not_found,
                   registrar_handler, event_loop, process_pc,
                   process_exit_code, rg_call, rg_published,
                   rg_handler_calls, varsActor, varsTopic, varsRouter, varsThreads, varsTest>>

terminate_keeps_status(status) ==
    /\ exit_status' = exit_status
    /\ event_loop' = "terminated"

\* terminate(exit_status): the status is recorded and event.terminate() asks
\* the loop to stop.
terminate(status) ==
    /\ exit_status' = status
    /\ event_loop' = "terminated"

ParseOkayAnyCommand(payload) ==
    LET parameters == parse(payload).parameters IN
    /\ Len(parameters) > 0
    /\ \/ Len(parameters) = 3 /\ parameters[1] = "started"
       \/ Len(parameters) = 1 /\ parameters[1] = "stopped"

\* on_registrar_message, lines 175-187: parse_okay
ParseOkay(payload) ==
    LET parameters == parse(payload).parameters IN
    /\ Len(parameters) > 0
    /\ parse(payload).command = "primary"
    /\ \/ Len(parameters) = 3 /\ parameters[1] = "started"
       \/ Len(parameters) = 1 /\ parameters[1] = "stopped"

\* The registrar dictionary built by on_registrar_message, as its items.
RegistrarRecord(payload) ==
    LET parameters == parse(payload).parameters IN
    IF ParseOkay(payload) /\ parameters[1] = "started"
    THEN {<<"topic_path", parameters[2]>>, <<"timestamp", parameters[3]>>}
    ELSE {}

registrar_started_needs_protocol(registrar_topic_path) ==
    IF protocol # "None"
    THEN /\ rg_published' =
               <<[topic |-> TopicJoin(registrar_topic_path, "in"),
                  payload |-> AddPayload]>>
         /\ topic_path_registrar' = registrar_topic_path
         /\ connection_state' = "REGISTRAR"
         /\ UNCHANGED <<exit_status, event_loop>>
    ELSE /\ rg_published' = <<>>
         /\ UNCHANGED <<topic_path_registrar, connection_state,
                        exit_status, event_loop>>

registrar_started_stale_topic(registrar_topic_path) ==
    /\ rg_published' =
          IF protocol # "None"
          THEN <<[topic |-> TopicJoin(topic_path_registrar, "in"),
                  payload |-> AddPayload]>>
          ELSE <<>>
    /\ topic_path_registrar' = registrar_topic_path
    /\ connection_state' = "REGISTRAR"
    /\ UNCHANGED <<exit_status, event_loop>>

\* on_registrar_message, the part run for a parsed "started"
registrar_started(registrar_topic_path) ==
    /\ rg_published' =
          IF protocol # "None"
          THEN <<[topic |-> TopicJoin(registrar_topic_path, "in"),
                  payload |-> AddPayload]>>
          ELSE <<>>
    /\ topic_path_registrar' = registrar_topic_path
    /\ connection_state' = "REGISTRAR"
    /\ UNCHANGED <<exit_status, event_loop>>

registrar_stopped_keeps_topic_path ==
    /\ rg_published' = <<>>
    /\ topic_path_registrar' = topic_path_registrar
    /\ connection_state' = "TRANSPORT"
    /\ IF terminate_registrar_not_found = TRUE
       THEN terminate(1)
       ELSE UNCHANGED <<exit_status, event_loop>>

registrar_stopped_keeps_state ==
    /\ rg_published' = <<>>
    /\ topic_path_registrar' = "None"
    /\ connection_state' = connection_state
    /\ IF terminate_registrar_not_found = TRUE
       THEN terminate(1)
       ELSE UNCHANGED <<exit_status, event_loop>>

\* on_registrar_message, the part run for a parsed "stopped"
registrar_stopped ==
    /\ rg_published' = <<>>
    /\ topic_path_registrar' = "None"
    /\ connection_state' = "TRANSPORT"
    /\ IF terminate_registrar_not_found = TRUE
       THEN terminate(1)
       ELSE UNCHANGED <<exit_status, event_loop>>

on_registrar_message_handler_first(payload_in) ==
    LET parameters == parse(payload_in).parameters IN
    /\ rg_call' = [payload |-> payload_in, state_before |-> connection_state]
    /\ IF ParseOkay(payload_in)
       THEN /\ IF parameters[1] = "started"
               THEN registrar_started(parameters[2])
               ELSE registrar_stopped
            /\ rg_handler_calls' =
                  IF registrar_handler
                  THEN <<[action |-> parameters[1],
                          registrar |-> RegistrarRecord(payload_in),
                          state |-> connection_state,
                          topic_path_registrar |-> topic_path_registrar,
                          published |-> <<>>]>>
                  ELSE <<>>
       ELSE /\ rg_published' = <<>>
            /\ rg_handler_calls' = <<>>
            /\ UNCHANGED <<connection_state, topic_path_registrar,
                           exit_status, event_loop>>

on_registrar_message_preempted(payload_in) ==
    LET parameters == parse(payload_in).parameters IN
    /\ rg_call' = [payload |-> payload_in, state_before |-> connection_state]
    /\ IF ParseOkay(payload_in)
       THEN /\ IF parameters[1] = "started"
               THEN registrar_started(parameters[2])
               ELSE registrar_stopped
            /\ rg_handler_calls' =
                  IF registrar_handler /\ event_loop' # "terminated"
                  THEN <<[action |-> parameters[1],
                          registrar |-> RegistrarRecord(payload_in),
                          state |-> connection_state',
                          topic_path_registrar |-> topic_path_registrar',
                          published |-> rg_published']>>
                  ELSE <<>>
       ELSE /\ rg_published' = <<>>
            /\ rg_handler_calls' = <<>>
            /\ UNCHANGED <<connection_state, topic_path_registrar,
                           exit_status, event_loop>>

\* on_registrar_message
on_registrar_message(payload_in) ==
    LET parameters == parse(payload_in).parameters IN
    /\ rg_call' = [payload |-> payload_in, state_before |-> connection_state]
    /\ IF ParseOkay(payload_in)
       THEN /\ IF parameters[1] = "started"
               THEN registrar_started(parameters[2])
               ELSE registrar_stopped
            /\ rg_handler_calls' =
                  IF registrar_handler
                  THEN <<[action |-> parameters[1],
                          registrar |-> RegistrarRecord(payload_in),
                          state |-> connection_state',
                          topic_path_registrar |-> topic_path_registrar',
                          published |-> rg_published']>>
                  ELSE <<>>
       ELSE /\ rg_published' = <<>>
            /\ rg_handler_calls' = <<>>
            /\ UNCHANGED <<connection_state, topic_path_registrar,
                           exit_status, event_loop>>

\* The event loop takes the oldest queued message and message_queue_handler
\* calls the handler registered for the registrar topic.
loop_message ==
    /\ process_pc = "loop"
    /\ event_loop = "running"
    /\ event_queue # <<>>
    /\ on_registrar_message(Head(event_queue))
    /\ event_queue' = Tail(event_queue)
    /\ UNCHANGED <<protocol, tags, terminate_registrar_not_found,
                   registrar_handler, process_pc, process_exit_code,
                   received, varsActor, varsTopic, varsRouter, varsThreads, varsTest>>

\* process(), after event.loop() has returned
process_exit ==
    /\ process_pc = "loop"
    /\ event_loop = "terminated"
    /\ process_pc' = IF exit_status # 0 THEN "exited" ELSE "returned"
    /\ process_exit_code' = IF exit_status # 0 THEN <<exit_status>> ELSE <<>>
    /\ UNCHANGED <<connection_state, topic_path_registrar, exit_status,
                   protocol, tags, terminate_registrar_not_found,
                   registrar_handler, event_queue, event_loop, received,
                   rg_call, rg_published, rg_handler_calls,
                   varsActor, varsTopic, varsRouter, varsThreads, varsTest>>

NextRegistrar ==
    \/ \E value \in Protocols : set_protocol(value)
    \/ \E new_tags \in TagLists : add_tags(new_tags)
    \/ \E value \in BOOLEAN : set_terminate_registrar_not_found(value)
    \/ \E value \in BOOLEAN : set_registrar_handler(value)
    \/ process_start
    \/ \E state \in {"DISCONNECTED", "TRANSPORT"} : transport_state(state)
    \/ \E payload \in RegistrarPayloads : on_message(payload)
    \/ loop_message
    \/ process_exit

\* ------------------------------------------------------------------------
\* The transport's thread and the event loop's thread
\* ------------------------------------------------------------------------
MaxDelivered == 4

InitThreads ==
    /\ delivered = 0
    /\ message_queue = <<>>
    /\ in_mailbox = <<>>
    /\ in_progress = {}
    /\ completed = <<>>

\* Topics of the messages delivered: the actor's topic_in and the
\* registrar's topic.
DeliveredTopics == {"topic_in", "registrar"}

on_message_dispatches(topic) ==
    /\ delivered < MaxDelivered
    /\ delivered' = delivered + 1
    /\ in_progress' = in_progress \cup
           {[thread |-> "transport", call |-> "message_queue_handler",
             message |-> [id |-> delivered + 1, topic |-> topic]]}
    /\ UNCHANGED <<message_queue, in_mailbox, completed, varsActor,
                   varsTopic, varsRouter, varsRegistrar, varsTest>>

\* on_message, run by the transport's thread for each message delivered:
\* event.queue_put(message, "message") and nothing else.
on_message_queue_put(topic) ==
    /\ delivered < MaxDelivered
    /\ delivered' = delivered + 1
    /\ message_queue' =
           Append(message_queue, [id |-> delivered + 1, topic |-> topic])
    /\ UNCHANGED <<in_mailbox, in_progress, completed, varsActor, varsTopic,
                   varsRouter, varsRegistrar, varsTest>>

\* The event loop's thread is between two dispatches.
LoopIdle == \A call \in in_progress : call.thread # "loop"

\* The event loop takes the oldest queued message and calls
\* message_queue_handler, which calls the handler registered for its topic.
message_queue_handler_begin ==
    /\ LoopIdle
    /\ message_queue # <<>>
    /\ message_queue' = Tail(message_queue)
    /\ in_progress' = in_progress \cup
           {[thread |-> "loop", call |-> "message_queue_handler",
             message |-> Head(message_queue)]}
    /\ UNCHANGED <<delivered, in_mailbox, completed, varsActor, varsTopic,
                   varsRouter, varsRegistrar, varsTest>>

\* ActorImpl._topic_in_handler and _post_message: the handler puts a Message
\* in the "in" mailbox and returns; it does not invoke it.
topic_in_handler_post ==
    \E call \in in_progress :
        /\ call.thread = "loop"
        /\ call.call = "message_queue_handler"
        /\ call.message.topic = "topic_in"
        /\ in_mailbox' = Append(in_mailbox, call.message)
        /\ in_progress' = in_progress \ {call}
        /\ UNCHANGED <<delivered, message_queue, completed, varsActor,
                       varsTopic, varsRouter, varsRegistrar, varsTest>>

\* on_registrar_message returns to message_queue_handler, and that to the
\* event loop.
on_registrar_message_return ==
    \E call \in in_progress :
        /\ call.thread = "loop"
        /\ call.call = "message_queue_handler"
        /\ call.message.topic = "registrar"
        /\ in_progress' = in_progress \ {call}
        /\ UNCHANGED <<delivered, message_queue, in_mailbox, completed,
                       varsActor, varsTopic, varsRouter, varsRegistrar, varsTest>>

\* The event loop takes the oldest message of the mailbox and calls
\* ActorImpl._mailbox_handler, which calls message.invoke().
mailbox_handler_begin ==
    /\ LoopIdle
    /\ in_mailbox # <<>>
    /\ in_mailbox' = Tail(in_mailbox)
    /\ in_progress' = in_progress \cup
           {[thread |-> "loop", call |-> "invoke",
             message |-> Head(in_mailbox)]}
    /\ UNCHANGED <<delivered, message_queue, completed, varsActor,
                   varsTopic, varsRouter, varsRegistrar, varsTest>>

\* message.invoke() returns to the event loop.
mailbox_handler_end ==
    \E call \in in_progress :
        /\ call.thread = "loop"
        /\ call.call = "invoke"
        /\ completed' = Append(completed, call.message)
        /\ in_progress' = in_progress \ {call}
        /\ UNCHANGED <<delivered, message_queue, in_mailbox, varsActor,
                       varsTopic, varsRouter, varsRegistrar, varsTest>>

NextThreads ==
    \/ \E topic \in DeliveredTopics : on_message_queue_put(topic)
    \/ message_queue_handler_begin
    \/ topic_in_handler_post
    \/ on_registrar_message_return
    \/ mailbox_handler_begin
    \/ mailbox_handler_end

\* ------------------------------------------------------------------------
\* Specifications
\* ------------------------------------------------------------------------
InitTopicIdle ==
    /\ ts_topic = <<>>
    /\ ts_topics = {}
    /\ ts_wildcards = <<>>
    /\ ts_matched = <<>>
    /\ ts_pc = "idle"

Init ==
    /\ InitActor /\ InitTopicIdle /\ InitRouter /\ InitRegistrar
    /\ InitThreads /\ InitTest

Next ==
    NextActor \/ NextRouter \/ NextRegistrar \/ NextThreads \/ NextTest

\* One ActorImpl, its two mailboxes and the event loop serving them.
SpecActor == Init /\ [][NextActor]_vars

\* One ActorTestImpl: initialize(), callers of its proxied methods and the
\* event loop serving its mailboxes.
SpecActorTest == Init /\ [][NextTest]_vars

\* topic_search applied to every topic and wildcard list within the bounds.
InitTopicSearch ==
    /\ InitActor /\ InitTopic /\ InitRouter /\ InitRegistrar
    /\ InitThreads /\ InitTest

SpecTopic == InitTopicSearch /\ [][NextTopic]_vars

\* The handler table: add, remove and dispatch.
SpecRouter == Init /\ [][NextRouter]_vars

\* The registrar protocol as run by process().
SpecRegistrar == Init /\ [][NextRegistrar]_vars

\* process() goes on to its last statements once event.loop() has returned.
SpecRegistrarFair == SpecRegistrar /\ WF_vars(process_exit)

\* Messages delivered by the transport's thread while the event loop's
\* thread dispatches them to the actor.
SpecThreads == Init /\ [][NextThreads]_vars

\* ------------------------------------------------------------------------
\* Properties
\* ------------------------------------------------------------------------
\* C1: whenever the event loop invokes a message while the control
\* (priority) mailbox is non-empty, the invoked message is the head of the
\* control mailbox; hence a control message posted before any "in" message
\* was processed has been invoked before any "in" message is.
C1_ControlFirst ==
    /\ [][(invoked' # invoked /\ mailboxes[ActorTopic_CONTROL] # <<>>)
            => /\ Last(invoked').mailbox = ActorTopic_CONTROL
               /\ Last(invoked').id = Head(mailboxes[ActorTopic_CONTROL]).id]_vars
    /\ [](\A c \in early :
            SelectIds(invoked, ActorTopic_IN) # <<>> =>
                \E i \in 1..Len(invoked) :
                    /\ invoked[i].id = c
                    /\ \A j \in 1..i : invoked[j].mailbox = ActorTopic_CONTROL)

C1_Witness ==
    /\ Len(invoked) >= 3
    /\ invoked[1].mailbox = ActorTopic_CONTROL
    /\ invoked[2].mailbox = ActorTopic_CONTROL
    /\ invoked[3].mailbox = ActorTopic_IN
    /\ posted[ActorTopic_IN] # <<>> /\ posted[ActorTopic_CONTROL] # <<>>
    /\ posted[ActorTopic_IN][1] < posted[ActorTopic_CONTROL][Len(posted[ActorTopic_CONTROL])]

\* C2: for each mailbox, the messages invoked from it followed by the
\* messages still queued in it are exactly the messages posted to it, in
\* posting order (FIFO; nothing lost, duplicated or reordered).
C2_Fifo ==
    \A t \in Range(ActorMailboxTopics) :
        SelectIds(invoked, t) \o QueueIds(mailboxes[t]) = posted[t]

C2_Witness ==
    /\ Len(SelectIds(invoked, ActorTopic_IN)) >= 2
    /\ Len(SelectIds(invoked, ActorTopic_CONTROL)) >= 2
    /\ posted[ActorTopic_IN][1] < posted[ActorTopic_CONTROL][2]
    /\ posted[ActorTopic_CONTROL][1] < posted[ActorTopic_IN][2]

\* The segments of a "#" pattern before the "#" are the topic's leading
\* segments.
HashPrefixMatches(topic, pattern) ==
    /\ Len(topic) >= Len(pattern) - 1
    /\ SubSeq(topic, 1, Len(pattern) - 1) = Front(pattern)

\* Same number of segments, and each pattern segment is "+" or the topic's.
PlusMatches(topic, pattern) ==
    /\ Len(topic) = Len(pattern)
    /\ \A i \in 1..Len(pattern) : pattern[i] = "+" \/ pattern[i] = topic[i]

\* C3: a registered pattern whose last segment is "#" is reported as matched
\* if and only if the topic's leading segments equal the pattern's segments
\* before the "#", whatever the number of trailing topic segments (zero
\* included).
C3_HashMatchesAnyDepth ==
    ts_pc = "done" =>
        \A i \in 1..Len(ts_wildcards) :
            Last(ts_wildcards[i]) = "#" =>
                (ts_wildcards[i] \in Range(ts_matched)
                    <=> HashPrefixMatches(ts_topic, ts_wildcards[i]))

\* C4: a registered pattern that contains "+" and does not end in "#" is
\* reported as matched if and only if it has as many segments as the topic
\* and each of its segments other than "+" equals the topic's segment at the
\* same position.
C4_PlusMatchesOneSegment ==
    ts_pc = "done" =>
        \A i \in 1..Len(ts_wildcards) :
            ("+" \in Range(ts_wildcards[i]) /\ Last(ts_wildcards[i]) # "#") =>
                (ts_wildcards[i] \in Range(ts_matched)
                    <=> PlusMatches(ts_topic, ts_wildcards[i]))


\* C5: when several handlers match an inbound message and one of them
\* returns True, the handlers before the first such handler in the dispatch
\* order have each been invoked once, that handler is the last one invoked
\* and no later handler is invoked.
C5_TrueStopsDispatch ==
    (/\ rt_call.op = "dispatch"
     /\ Len(rt_handler_list) >= 2
     /\ \E i \in 1..Len(rt_invoked) : Behaviour(rt_invoked[i]) = "True")
        => /\ Behaviour(Last(rt_invoked)) = "True"
           /\ \A i \in 1..(Len(rt_invoked) - 1) :
                  Behaviour(rt_invoked[i]) # "True"
           /\ Len(rt_invoked) <= Len(rt_handler_list)
           /\ rt_invoked = SubSeq(rt_handler_list, 1, Len(rt_invoked))

C5_Witness ==
    /\ rt_call.op = "dispatch"
    /\ Len(rt_handler_list) >= 3
    /\ Len(rt_invoked) = 2
    /\ Behaviour(rt_invoked[1]) # "True"
    /\ Behaviour(rt_invoked[2]) = "True"
    /\ Cardinality({topic \in DOMAIN message_handlers :
           wildcard_match(rt_call.topic, topic)}) >= 2

\* C6: when a handler raises while an inbound message is dispatched, no
\* exception escapes message_queue_handler and every handler after it in
\* the dispatch order is invoked as well, up to and including the first one
\* that returns True.
C6_RaiseIsIsolated ==
    (/\ rt_call.op = "dispatch"
     /\ \E i \in 1..Len(rt_invoked) : Behaviour(rt_invoked[i]) = "raise")
        => /\ rt_error = "none"
           /\ \A j \in 1..Len(rt_handler_list) :
                  (\A k \in 1..(j - 1) :
                        Behaviour(rt_handler_list[k]) # "True")
                     => /\ j <= Len(rt_invoked)
                        /\ rt_invoked[j] = rt_handler_list[j]

C6_Witness ==
    /\ rt_call.op = "dispatch"
    /\ Len(rt_invoked) >= 2
    /\ Behaviour(rt_invoked[1]) = "raise"
    /\ rt_invoked = rt_handler_list
    /\ rt_error = "none"

\* C7: after an inbound message has been dispatched without any invocation
\* returning True, a handler that is registered twice for a topic matched by
\* the message has been invoked (at least) twice.
C7_TwiceRegisteredTwiceInvoked ==
    (/\ rt_call.op = "dispatch"
     /\ \A i \in 1..Len(rt_invoked) : Behaviour(rt_invoked[i]) # "True")
        => \A topic \in DOMAIN message_handlers :
             \A h \in Range(message_handlers[topic]) :
               (/\ Count(message_handlers[topic], h) = 2
                /\ topic \in Range(topic_search(rt_call.topic,
                                       DOMAIN message_handlers,
                                       message_handlers_wildcard_topics)))
                  => Count(rt_invoked, h) >= 2


\* The event loop dispatches the oldest queued payload in this step.
Handles(payload) ==
    /\ event_queue # <<>>
    /\ Head(event_queue) = payload
    /\ event_queue' = Tail(event_queue)

\* C8: with a protocol configured, handling "(primary started <path> <ts>)"
\* in any connection state publishes exactly one message, the payload
\* "(add <own topic path> <protocol> <transport> <owner> (<tags>))" on topic
\* "<path>/in", records <path> as topic_path_registrar and leaves the
\* connection state REGISTRAR.
C8_StartedAnnounces ==
    [][\A path \in RegistrarPaths :
         (Handles(StartedPayload(path)) /\ protocol # "None")
            => /\ rg_published' =
                    <<[topic |-> <<path, "in">>,
                       payload |-> <<"(", "add", "ns/host/pid", protocol,
                                     "mqtt", "owner", "(">>
                                       \o tags \o <<")", ")">>]>>
               /\ topic_path_registrar' = path
               /\ connection_state' = "REGISTRAR"]_vars

C8_Witness ==
    /\ rg_call.payload = StartedPayload("reg/two")
    /\ rg_call.state_before = "REGISTRAR"
    /\ protocol = "proto"
    /\ tags = <<"a=1", "b=2">>
    /\ Len(rg_published) = 1
    /\ rg_published[1].topic = <<"reg/two", "in">>
    /\ topic_path_registrar = "reg/two"
    /\ connection_state = "REGISTRAR"

\* C9: handling "(primary stopped)" in connection state REGISTRAR with
\* terminate_registrar_not_found false sets the connection state to
\* TRANSPORT and clears topic_path_registrar; the exit status, the event
\* loop's running status and process() are left as they were.
C9_StoppedDowngrades ==
    [][(/\ Handles(StoppedPayload)
        /\ connection_state = "REGISTRAR"
        /\ terminate_registrar_not_found = FALSE)
          => /\ connection_state' = "TRANSPORT"
             /\ topic_path_registrar' = "None"
             /\ exit_status' = exit_status
             /\ event_loop' = event_loop
             /\ event_loop' = "running"
             /\ process_pc' = "loop"
             /\ process_exit_code' = <<>>]_vars

C9_Witness ==
    /\ rg_call.payload = StoppedPayload
    /\ rg_call.state_before = "REGISTRAR"
    /\ terminate_registrar_not_found = FALSE
    /\ connection_state = "TRANSPORT"
    /\ topic_path_registrar = "None"
    /\ event_loop = "running"
    /\ exit_status = 0

\* C10: handling "(primary stopped)" with terminate_registrar_not_found true
\* sets the exit status to 1 and asks the event loop to terminate, and
\* process() then eventually ends the process with exit status 1.
C10_StoppedTerminates ==
    /\ [][(Handles(StoppedPayload) /\ terminate_registrar_not_found = TRUE)
            => (exit_status' = 1 /\ event_loop' = "terminated")]_vars
    /\ (/\ rg_call.payload = StoppedPayload
        /\ terminate_registrar_not_found = TRUE
        /\ process_pc = "loop")
          ~> (process_pc = "exited" /\ process_exit_code = <<1>>)

C10_Witness ==
    /\ rg_call.payload = StoppedPayload
    /\ terminate_registrar_not_found = TRUE
    /\ process_pc = "exited"
    /\ process_exit_code = <<1>>
    /\ exit_status = 1


\* C11: handling a registrar payload that is neither "(primary started
\* <topic_path> <timestamp>)" nor "(primary stopped)" leaves the connection
\* state, topic_path_registrar, the exit status and the event loop as they
\* were, publishes nothing and does not call the registrar handler.
C11_MalformedIgnored ==
    [][\A payload \in RegistrarPayloads :
         (/\ Handles(payload)
          /\ payload # StoppedPayload
          /\ \A path \in RegistrarPaths : payload # StartedPayload(path))
            => /\ connection_state' = connection_state
               /\ topic_path_registrar' = topic_path_registrar
               /\ exit_status' = exit_status
               /\ event_loop' = event_loop
               /\ rg_published' = <<>>
               /\ rg_handler_calls' = <<>>]_vars

C11_Witness ==
    /\ rg_call.payload = <<"(", "secondary", "stopped", ")">>
    /\ rg_call.state_before = "REGISTRAR"
    /\ connection_state = "REGISTRAR"
    /\ topic_path_registrar = "reg/one"
    /\ registrar_handler
    /\ terminate_registrar_not_found
    /\ protocol = "proto"
    /\ event_loop = "running"


\* The event loop hands the oldest message of a mailbox to _mailbox_handler.
Invokes(topic) ==
    /\ mailboxes[topic] # <<>>
    /\ mailboxes' = [mailboxes EXCEPT ![topic] = Tail(@)]
    /\ Len(invoked') = Len(invoked) + 1

\* C12: invoking a message that carries no target function and whose command
\* is not an attribute of the target object calls nothing, raises nothing
\* and logs exactly one diagnostic; the event loop keeps running with the
\* messages queued behind it.
C12_UnknownCommandDropped ==
    [][\A topic \in Range(ActorMailboxTopics) :
         (/\ Invokes(topic)
          /\ ~Head(mailboxes[topic]).target_function
          /\ Head(mailboxes[topic]).command
                 \notin (TargetMethods \cup TargetValues))
            => /\ ~Last(invoked').outcome.called
               /\ ~Last(invoked').outcome.entered
               /\ Last(invoked').outcome.raised = "none"
               /\ Len(Last(invoked').outcome.diagnostics) = 1
               /\ run_pc' = "loop"
               /\ \A t \in Range(ActorMailboxTopics) :
                      t # topic => mailboxes'[t] = mailboxes[t]]_vars

C12_Witness ==
    \E i, j \in 1..Len(invoked) :
        /\ i < j
        /\ invoked[i].command = "nosuch"
        /\ Len(invoked[i].outcome.diagnostics) = 1
        /\ invoked[j].mailbox = invoked[i].mailbox
        /\ invoked[j].outcome.entered
        /\ invoked[j].outcome.raised = "none"

\* C13: invoke() returns normally only when the target function was not
\* found, was not callable, could not be called with the arguments, or
\* returned; an exception raised inside the body of the function escapes
\* invoke().
C13_BodyFailuresPropagate ==
    \A i \in 1..Len(invoked) :
        (/\ invoked[i].outcome.entered
         /\ MethodBody(invoked[i].command) # "returns")
            => invoked[i].outcome.raised = MethodBody(invoked[i].command)

\* C17: the running flag is true while run() is in the loop and false once
\* run() has ended, by returning or by raising.
C17_RunningFlag ==
    /\ run_pc = "loop" => share.running
    /\ run_pc \in {"returned", "raised"} => ~share.running


\* Topics without a wildcard that handlers are registered for.
ExactTopics == {t \in RegisteredTopics : ~IsWildcardTopic(t)}

\* C14: remove_message_handler on an exact topic of the table raises nothing
\* and removes at most the given handler.  The topic's entry is dropped
\* exactly when the handler removed was the only one in it, and exactly then
\* the transport client (when there is one) is told to unsubscribe.
\* Otherwise nothing is sent, the handlers that are left keep their entry and
\* their order, the topics a message matches are the same as before, and a
\* dispatch for the topic tries the handlers of its entry.
C14_ExactRemove ==
    [][\A t \in ExactTopics :
         /\ (/\ rt_call'.op = "remove"
             /\ rt_call'.topic = t
             /\ t \in DOMAIN message_handlers)
               => LET before == message_handlers[t]
                      dropped == t \notin DOMAIN message_handlers'
                      after == IF dropped THEN <<>> ELSE message_handlers'[t]
                      removed_one == \E h \in Range(before) :
                                         after = ListRemove(before, h)
                  IN /\ rt_error' = "none"
                     /\ after = before \/ removed_one
                     /\ dropped <=> (removed_one /\ Len(before) = 1)
                     /\ rt_transport' = IF dropped /\ public_message
                                        THEN <<<<"unsubscribe", t>>>>
                                        ELSE <<>>
                     /\ \A k \in DOMAIN message_handlers \ {t} :
                            /\ k \in DOMAIN message_handlers'
                            /\ message_handlers'[k] = message_handlers[k]
                     /\ message_handlers_wildcard_topics'
                            = message_handlers_wildcard_topics
                     /\ ~dropped
                            => DOMAIN message_handlers'
                                   = DOMAIN message_handlers
         /\ (/\ rt_call'.op = "dispatch"
             /\ rt_call'.topic = t
             /\ t \in DOMAIN message_handlers)
               => \/ rt_error' = "KeyError"
                  \/ /\ rt_error' = "none"
                     /\ Len(rt_handler_list') >= Len(message_handlers[t])
                     /\ SubSeq(rt_handler_list', 1, Len(message_handlers[t]))
                            = message_handlers[t]
      ]_vars

C14_Witness ==
    /\ rt_call = [op |-> "remove", topic |-> <<"ns", "a">>]
    /\ public_message
    /\ rt_transport = <<<<"unsubscribe", <<"ns", "a">>>>>>
    /\ <<"ns", "a">> \notin DOMAIN message_handlers
    /\ <<"ns", "#">> \in DOMAIN message_handlers
    /\ rt_error = "none"

\* C15: remove_message_handler on a wildcard pattern of the table raises
\* nothing, and afterwards the pattern is in the wildcard list exactly when
\* it still has an entry in the handler table.
C15_WildcardRemove ==
    [][\A t \in RegisteredTopics :
         (/\ IsWildcardTopic(t)
          /\ rt_call'.op = "remove"
          /\ rt_call'.topic = t
          /\ t \in DOMAIN message_handlers)
            => /\ rt_error' = "none"
               /\ t \in Range(message_handlers_wildcard_topics')
                      <=> t \in DOMAIN message_handlers']_vars

\* The position in the registration history of each handler of
\* message_handler_list.
RegistrationList(topics_matched) ==
    LET F[i \in 0..Len(topics_matched)] ==
            IF i = 0 THEN <<>>
            ELSE F[i - 1] \o
                 [j \in 1..Len(message_handlers[topics_matched[i]]) |->
                      Occurrence(registration_order, topics_matched[i], j)]
    IN F[Len(topics_matched)]

\* C16: the handlers tried for a message, over all the patterns it matched,
\* are tried in the order in which they were registered.
C16_RegistrationOrder ==
    (rt_call.op = "dispatch" /\ rt_error = "none")
        => LET topics_matched ==
                   topic_search(rt_call.topic, DOMAIN message_handlers,
                                message_handlers_wildcard_topics)
               registered == RegistrationList(topics_matched)
           IN /\ rt_handler_list = HandlerList(topics_matched)
              /\ \A i, j \in 1..Len(registered) :
                     i < j => registered[i] < registered[j]


\* C18: terminate does not interrupt the handler that calls it.  Handling
\* "(primary stopped)" with terminate_registrar_not_found set records exit
\* status 1 and asks the loop to stop, and the same handling still calls the
\* registrar handler, once, with the state already updated.  Once the loop
\* has been asked to stop no queued message is dispatched: nothing is taken
\* from the queue and no handler runs.
C18_TerminateNotPreemptive ==
    [][/\ (Handles(StoppedPayload) /\ terminate_registrar_not_found)
            => /\ exit_status' = 1
               /\ event_loop' = "terminated"
               /\ registrar_handler
                      => /\ Len(rg_handler_calls') = 1
                         /\ rg_handler_calls'[1].action = "stopped"
                         /\ rg_handler_calls'[1].state = "TRANSPORT"
       /\ event_loop = "terminated"
            => /\ event_loop' = "terminated"
               /\ exit_status' = exit_status
               /\ Len(event_queue') >= Len(event_queue)
               /\ SubSeq(event_queue', 1, Len(event_queue)) = event_queue
               /\ rg_call' = rg_call
               /\ rg_published' = rg_published
               /\ rg_handler_calls' = rg_handler_calls
               /\ topic_path_registrar' = topic_path_registrar]_vars

C18_Witness ==
    /\ event_loop = "terminated"
    /\ exit_status = 1
    /\ rg_call.payload = StoppedPayload
    /\ Len(rg_handler_calls) = 1
    /\ rg_handler_calls[1].action = "stopped"
    /\ Len(event_queue) = MaxQueue
    /\ process_pc = "exited"


\* C19: at most one handler or message invocation is in progress at any
\* time, and it runs on the event loop's thread: the transport's thread
\* only queues what it delivers.
C19_OneInvocationAtATime ==
    /\ Cardinality(in_progress) <= 1
    /\ \A call \in in_progress : call.thread = "loop"

C19_Witness ==
    /\ \E call \in in_progress : call.call = "invoke" /\ call.message.id = 2
    /\ Len(message_queue) = 1
    /\ Head(message_queue).id = 4
    /\ Len(in_mailbox) = 1
    /\ Head(in_mailbox).id = 3
    /\ Len(completed) = 1


\* C20: the announcement published for topic path T, protocol P, transport
\* X, owner O and the tags is "(add T P X O (tags))", with "()" when there
\* are no tags, and parsing it gives the command "add" with the parameters
\* T, P, X, O and the list of the tags.
C20_AnnouncementRoundTrip ==
    \A i \in 1..Len(rg_published) :
        LET payload == rg_published[i].payload IN
        /\ payload = <<"(", "add", topic_path, protocol, transport, owner,
                       "(">> \o tags \o <<")", ")">>
        /\ tags = <<"a=1", "b=2">>
               => payload = <<"(", "add", topic_path, protocol, transport,
                              owner, "(", "a=1", "b=2", ")", ")">>
        /\ tags = <<>> => SubSeq(payload, 7, Len(payload)) = <<"(", ")", ")">>
        /\ parse(payload).command = "add"
        /\ Len(parse(payload).parameters) = 5
        /\ SubSeq(parse(payload).parameters, 1, 4)
               = <<topic_path, protocol, transport, owner>>
        /\ parse(payload).parameters[5] = tags

C20_Witness ==
    /\ Len(rg_published) = 1
    /\ tags = <<"a=1", "b=2">>
    /\ protocol = "proto"
    /\ rg_published[1].payload
           = <<"(", "add", "ns/host/pid", "proto", "mqtt", "owner",
               "(", "a=1", "b=2", ")", ")">>
    /\ parse(rg_published[1].payload).parameters
           = <<"ns/host/pid", "proto", "mqtt", "owner", <<"a=1", "b=2">>>>


\* C21: running is a view of the lifecycle: it is true exactly when the
\* lifecycle is "running", and never true while the lifecycle is "ready".
C21_RunningFollowsLifecycle ==
    /\ share.running <=> share.lifecycle = "running"
    /\ ~(share.lifecycle = "ready" /\ share.running)


C23_HandlerAfterUpdate ==
    [][\A payload \in RegistrarPayloads :
         (Handles(payload) /\ ParseOkay(payload))
            => LET parameters == parse(payload).parameters
                   started == parameters[1] = "started"
               IN  IF registrar_handler
                   THEN /\ Len(rg_handler_calls') = 1
                        /\ rg_handler_calls'[1].action = parameters[1]
                        /\ rg_handler_calls'[1].registrar
                              = RegistrarRecord(payload)
                        /\ rg_handler_calls'[1].state
                              = IF started THEN "REGISTRAR" ELSE "TRANSPORT"
                        /\ rg_handler_calls'[1].topic_path_registrar
                              = IF started THEN parameters[2] ELSE "None"
                        /\ rg_handler_calls'[1].published
                              = IF started /\ protocol # "None"
                                THEN <<[topic |-> <<parameters[2], "in">>,
                                        payload |-> AddPayload]>>
                                ELSE <<>>
                   ELSE rg_handler_calls' = <<>>]_vars

\* The handler was called for a "started" that replaced one registrar by
\* another, after the announcement to the new registrar was published.
C23_Witness ==
    /\ registrar_handler
    /\ rg_call.payload = StartedPayload("reg/one")
    /\ rg_call.state_before = "TRANSPORT"
    /\ Len(rg_handler_calls) = 1
    /\ rg_handler_calls[1].action = "started"
    /\ rg_handler_calls[1].state = "REGISTRAR"
    /\ rg_handler_calls[1].topic_path_registrar = "reg/one"
    /\ Len(rg_handler_calls[1].published) = 1

\* C24: with no protocol set, handling a well-formed "started" publishes
\* nothing, and still records the registrar's topic path and leaves the
\* connection state REGISTRAR.
C24_StartedWithoutProtocol ==
    [][\A path \in RegistrarPaths :
         (Handles(StartedPayload(path)) /\ protocol = "None")
            => /\ rg_published' = <<>>
               /\ topic_path_registrar' = path
               /\ connection_state' = "REGISTRAR"]_vars

C24_Witness ==
    /\ protocol = "None"
    /\ rg_call.payload = StartedPayload("reg/two")
    /\ rg_call.state_before = "TRANSPORT"
    /\ rg_published = <<>>
    /\ topic_path_registrar = "reg/two"
    /\ connection_state = "REGISTRAR"

\* The calls of ActorTestImpl.initialize among the invocations, in order.
InitializeInvoked ==
    LET initial == SelectSeq(invoked, LAMBDA r : r.arguments[1] \in 0..3)
    IN  [i \in 1..Len(initial) |->
            [command |-> initial[i].command, value |-> initial[i].arguments[1]]]

\* C25: a call made through the proxy is not executed by the step that makes
\* it: that step adds exactly one Message per call, to the control mailbox
\* when the method is control_test and to the "in" mailbox when it is test,
\* and invokes none of them; nothing is invoked before the loop runs; and the
\* calls control_test(0), test(1), test(2), control_test(3) of initialize()
\* are invoked in the order control_test(0), control_test(3), test(1),
\* test(2).
C25_ProxyPostsInOrder ==
    /\ [][\A id \in next_id..(next_id' - 1) :
            /\ \A i \in 1..Len(invoked') : invoked'[i].id # id
            /\ \E topic \in Range(ActorMailboxTopics) :
                 /\ \E i \in 1..Len(mailboxes'[topic]) :
                       /\ mailboxes'[topic][i].id = id
                       /\ (topic = ActorTopic_CONTROL)
                             <=> mailboxes'[topic][i].command = "control_test"
                       /\ (topic = ActorTopic_IN)
                             <=> mailboxes'[topic][i].command = "test"
                 /\ Len(SelectSeq(mailboxes'[topic],
                                  LAMBDA m : m.id = id)) = 1
                 /\ \A other \in Range(ActorMailboxTopics) \ {topic} :
                       \A i \in 1..Len(mailboxes'[other]) :
                          mailboxes'[other][i].id # id]_vars
    /\ [](run_pc = "ready" => invoked = <<>>)
    /\ [](LET order == <<[command |-> "control_test", value |-> 0],
                         [command |-> "control_test", value |-> 3],
                         [command |-> "test", value |-> 1],
                         [command |-> "test", value |-> 2]>>
          IN  /\ Len(InitializeInvoked) <= 4
              /\ InitializeInvoked = SubSeq(order, 1, Len(InitializeInvoked)))

\* initialize() ran before the loop and all its calls have been invoked,
\* with the calls made by _mailbox_handler in between.
C25_Witness ==
    /\ test_count = <<6>>
    /\ early = {1, 4}
    /\ [i \in 1..Len(invoked) |-> invoked[i].id] = <<1, 4, 2, 5, 3, 6>>
    /\ [i \in 1..Len(invoked) |-> invoked[i].arguments[1]]
          = <<0, 3, 1, 4, 2, 5>>
    /\ \A i \in 1..Len(invoked) : invoked[i].outcome.entered

\* C26: the wildcard list and the handler table agree: every pattern of the
\* wildcard list is a key of the table, with a non-empty handler list, and is
\* in the wildcard list once; a dispatch therefore meets no matched pattern
\* without an entry, and invokes at most once a handler that is registered
\* once in the whole table.
C26_WildcardListConsistent ==
    /\ \A i \in 1..Len(message_handlers_wildcard_topics) :
          LET pattern == message_handlers_wildcard_topics[i]
          IN  /\ pattern \in DOMAIN message_handlers
              /\ message_handlers[pattern] # <<>>
              /\ Count(message_handlers_wildcard_topics, pattern) <= 1
    /\ rt_call.op = "dispatch"
          => /\ rt_error # "KeyError"
             /\ \A h \in Handlers :
                   (\A topic \in DOMAIN message_handlers :
                       /\ Count(message_handlers[topic], h) <= 1
                       /\ \A other \in DOMAIN message_handlers \ {topic} :
                             ~(/\ h \in Range(message_handlers[topic])
                               /\ h \in Range(message_handlers[other])))
                      => Count(rt_invoked, h) <= 1

====
